---- MODULE Spec2Model ----
(***************************************************************************)
(* Model of didit_aml.log.LokiFormatter (src/src/didit_aml/log/__init__.py) *)
(* One call of format(record) is a run getMessage -> extra_from_record ->  *)
(* json_record -> mutate_json_record -> to_json -> done; every step runs   *)
(* inside the try of format, whose except clause ends the call.            *)
(***************************************************************************)
EXTENDS Integers, Sequences, FiniteSets, TLC

VARIABLES
    py,              \* host interpreter line: decides the LogRecord schema
    self,            \* the formatter: [json_lib, hook] (class attribute, override)
    record,          \* record.__dict__ : attribute name -> value
    supplied,        \* record.__dict__ as the caller handed it to the first call
    pc,              \* position inside format
    message,         \* local `message` of format
    extra,           \* local `extra`: reference to a mapping object
    json_record,     \* local `json_record`: reference to a mapping object
    fresh,           \* contents of the dict built by extra_from_record
    newmap,          \* contents of a mapping a hook override built and returned
    hook_ret,        \* what mutate_json_record returned (a reference or "None")
    mutated_record,  \* local `mutated_record` after the None fallback
    to_json_arg,     \* contents of the mapping handed to to_json
    attempts,        \* the json_lib.dumps calls to_json made, in order
    caught,          \* the exception bound by `except Exception as e`
    result,          \* what format returned (or that it raised)
    prev,            \* what the previous call of format returned
    calls            \* number of format calls started on this record

vars == <<py, self, record, supplied, pc, message, extra, json_record, fresh, newmap,
          hook_ret, mutated_record, to_json_arg, attempts, caught, result,
          prev, calls>>

-----------------------------------------------------------------------------
(* Bounds *)

MaxErrLen == 2
MaxCalls == 2

-----------------------------------------------------------------------------
(* Values.  Every Python value is a record [t, s, c]: its type, its text   *)
(* when the text is fixed, and its text as a character sequence when the   *)
(* characters matter (error texts that end up inside the fallback string). *)

QUOTE == "\""
BACKSLASH == "\\"
CTRL == "\n"
PLAIN == "x"
Alphabet == {PLAIN, QUOTE, BACKSLASH, CTRL}

RECURSIVE TextsOfLen(_)
TextsOfLen(n) ==
    IF n = 0 THEN {<<>>}
    ELSE {Append(t, ch) : t \in TextsOfLen(n - 1), ch \in Alphabet}

ErrTexts == UNION {TextsOfLen(n) : n \in 0..MaxErrLen}

V(t, s, c) == [t |-> t, s |-> s, c |-> c]
StrV(s) == V("str", s, <<>>)
TextV(c) == V("str", "", c)
IntV(s) == V("int", s, <<>>)
FloatV(s) == V("float", s, <<>>)
NoneV == V("NoneType", "None", <<>>)
TupleV(s) == V("tuple", s, <<>>)
Datetime == V("datetime", "2024-01-02 03:04:05", <<>>)
Point == V("object", "Point(x=1, y=2)", <<>>)
Opaque == V("slots", "<Opaque>", <<>>)
Circular == V("dict_circular", "{'self': {...}}", <<>>)
Hostile(c) == V("hostile", "", c)
Unrenderable(c) == V("unrenderable", "%(key)s", c)

EmptyMap == [k \in {} |-> NoneV]

Put(m, k, v) == [x \in DOMAIN m \cup {k} |-> IF x = k THEN v ELSE m[x]]

Exc(type, text) == [type |-> type, text |-> text]
NoExc == Exc("none", <<>>)
Ok(v) == [ok |-> TRUE, val |-> v, exc |-> NoExc]
Raise(e) == [ok |-> FALSE, val |-> NoneV, exc |-> e]

-----------------------------------------------------------------------------
(* The event.  HostAttrs is the attribute set logging.LogRecord.__init__    *)
(* fills in: CPython up to 3.11 sets twenty attributes, CPython 3.12 and    *)
(* later also set taskName.                                                *)

PyVersions == {"3.11", "3.12"}

HostAttrs(v) ==
    {"name", "msg", "args", "levelname", "levelno", "pathname", "filename",
     "module", "exc_info", "exc_text", "stack_info", "lineno", "funcName",
     "created", "msecs", "relativeCreated", "thread", "threadName",
     "processName", "process"}
    \cup (IF v = "3.12" THEN {"taskName"} ELSE {})

BUILTIN_ATTRS ==
    {"args", "asctime", "created", "exc_info", "exc_text", "filename",
     "funcName", "levelname", "levelno", "lineno", "module", "msecs",
     "message", "msg", "name", "pathname", "process", "processName",
     "relativeCreated", "stack_info", "thread", "threadName"}

ExcInfo == V("tuple", "(ZeroDivisionError, ZeroDivisionError('division by zero'), <traceback>)", <<>>)

\* logging.LogRecord(name, level, pathname, lineno, msg, args, exc_info, func)
LogRecord(v, msg, args, exc_info) ==
    [a \in HostAttrs(v) |->
        CASE a = "name" -> StrV("app.auth")
          [] a = "msg" -> msg
          [] a = "args" -> args
          [] a = "levelname" -> StrV("INFO")
          [] a = "levelno" -> IntV("20")
          [] a = "pathname" -> StrV("/srv/app/views.py")
          [] a = "filename" -> StrV("views.py")
          [] a = "module" -> StrV("views")
          [] a = "exc_info" -> exc_info
          [] a = "lineno" -> IntV("42")
          [] a = "funcName" -> StrV("login")
          [] a = "created" -> FloatV("1704164645.5")
          [] a = "msecs" -> FloatV("500.0")
          [] a = "relativeCreated" -> FloatV("12.25")
          [] a = "thread" -> IntV("140245")
          [] a = "threadName" -> StrV("MainThread")
          [] a = "processName" -> StrV("MainProcess")
          [] a = "process" -> IntV("4711")
          [] OTHER -> NoneV]

\* Logger.makeRecord: every key of the caller's `extra` becomes an attribute.
WithExtra(rec, ex) ==
    [a \in DOMAIN rec \cup DOMAIN ex |-> IF a \in DOMAIN ex THEN ex[a] ELSE rec[a]]

\* The caller's extra={...}: an optional request_id of any kind of value, an
\* optional `level` (a name json_record also writes) and an optional
\* `levelname_` (the attribute json_record reads).
RequestIdValues(txt) ==
    {StrV("abc123"), Datetime, Point, Opaque, Circular, Hostile(txt)}

ExtraDicts(txt) ==
    {[k \in ks |-> CASE k = "request_id" -> rid
                     [] k = "level" -> StrV("custom")
                     [] OTHER -> StrV("WARNING")] :
        ks \in SUBSET {"request_id", "level", "levelname_"},
        rid \in RequestIdValues(txt)}

Messages(txt) ==
    {<<StrV("user %s logged in"), TupleV("('alice',)")>>,
     <<Unrenderable(txt), TupleV("({'a': 1},)")>>}

HookKinds == {"default", "inplace_returns_none", "returns_new_mapping", "raises"}
JsonLibs == {"json", "ujson"}

-----------------------------------------------------------------------------
(* Steps A-D as functions of their arguments *)

\* obj.attr on a LogRecord: AttributeError when the instance has no such attribute
GetAttr(rec, a) ==
    IF a \in DOMAIN rec THEN Ok(rec[a])
    ELSE Raise(Exc("AttributeError", <<PLAIN>>))

\* bool(v) as `if record.exc_info:` takes it
Truthy(v) == v.t # "NoneType"

\* record.getMessage(): str(msg) % args; a template that does not fit its
\* arguments raises, and the text of the error comes with the template
GetMessage(rec) ==
    IF rec["msg"].t = "unrenderable"
    THEN Raise(Exc("KeyError", rec["msg"].c))
    ELSE Ok(StrV("user alice logged in"))

ExtraFromRecordAlias(rec) == [ref |-> "event", map |-> rec]

\* a dict comprehension: a new dict holding the non-builtin attributes
ExtraFromRecord(rec) ==
    [ref |-> "fresh",
     map |-> [a \in DOMAIN rec \ BUILTIN_ATTRS |-> rec[a]]]

\* logging.Formatter.formatException: the traceback text, never empty
FormatException(ei) == StrV("Traceback (most recent call last): ... ZeroDivisionError: division by zero")

\* json_record(message, extra, record) writing into the mapping m that `extra`
\* refers to.  [ok, map, exc]: map is m as the writes executed so far left it.
JsonRecord(msg, m, rec) ==
    LET m1 == Put(m, "message", msg)
        lv == GetAttr(rec, "levelname_")
    IN  IF ~lv.ok THEN [ok |-> FALSE, map |-> m1, exc |-> lv.exc]
        ELSE
        LET m2 == Put(Put(m1, "level", lv.val), "name", rec["name"])
            m3 == IF Truthy(rec["exc_info"])
                  THEN Put(m2, "exc_info", FormatException(rec["exc_info"]))
                  ELSE m2
            m4 == Put(m3, "filename", rec["filename"])
            m5 == Put(m4, "func_name", rec["funcName"])
            m6 == Put(m5, "lineno", rec["lineno"])
            m7 == Put(m6, "module", rec["module"])
            m8 == Put(m7, "pathname", rec["pathname"])
        IN  [ok |-> TRUE, map |-> m8, exc |-> NoExc]

\* datetime.isoformat()
isoformat(v) == StrV("2024-01-02T03:04:05")

\* the default mutate_json_record: datetime values become ISO strings, in place
CoerceDatetimes(m) ==
    [k \in DOMAIN m |-> IF m[k].t = "datetime" THEN isoformat(m[k]) ELSE m[k]]

\* mutate_json_record, the default or an override of the given kind, called on
\* the mapping m that reference ref names.  [ok, ret, inplace, new, exc]:
\* ret is the reference returned ("None" for no return value), inplace is m
\* after the call, new is the mapping an override built.
MutateJsonRecord(kind, ref, m, txt) ==
    CASE kind = "default" ->
            [ok |-> TRUE, ret |-> ref, inplace |-> CoerceDatetimes(m),
             new |-> EmptyMap, exc |-> NoExc]
      [] kind = "inplace_returns_none" ->
            [ok |-> TRUE, ret |-> "None", inplace |-> Put(m, "host", StrV("web-1")),
             new |-> EmptyMap, exc |-> NoExc]
      [] kind = "returns_new_mapping" ->
            [ok |-> TRUE, ret |-> "new", inplace |-> m,
             new |-> Put([k \in DOMAIN m \cap {"message", "level"} |-> m[k]],
                         "host", StrV("web-1")),
             exc |-> NoExc]
      [] OTHER ->
            [ok |-> FALSE, ret |-> "None", inplace |-> m, new |-> EmptyMap,
             exc |-> Exc("RuntimeError", txt)]

ResolveHookReturnAlwaysInput(ret, jr) == jr

\* lines 49-50: a hook that returned None mutated its argument
ResolveHookReturn(ret, jr) ==
    IF ret = "None" THEN jr ELSE ret

-----------------------------------------------------------------------------
(* Step E: serialization *)

\* what format can return: the text json_lib.dumps produced for a mapping, the
\* literal '{}', or the f-string of line 53 around the text of the error
NoResult == [kind |-> "none", obj |-> EmptyMap, body |-> <<>>]
OutDumps(obj) == [kind |-> "dumps", obj |-> obj, body |-> <<>>]
OutLiteralEmpty == [kind |-> "literal", obj |-> EmptyMap, body |-> <<>>]
OutFallback(text) == [kind |-> "fstring", obj |-> EmptyMap, body |-> text]
OutRaised == [kind |-> "raised", obj |-> EmptyMap, body |-> <<>>]

\* types the encoder writes without help
Native(v) == v.t \in {"str", "int", "float", "NoneType", "jobject"}

\* str(obj) for the values that reach it
StrOf(v) ==
    CASE v.t = "hostile" -> Raise(Exc("RuntimeError", v.c))
      [] v.t = "datetime" -> Ok(StrV(v.s))
      [] OTHER -> Ok(StrV(v.s))

\* _json_serializable(obj): obj.__dict__, or str(obj) on AttributeError
JsonSerializable(v) ==
    IF v.t = "object" THEN Ok(V("jobject", "{\"x\": 1, \"y\": 2}", <<>>))
    ELSE StrOf(v)

\* the encoder on one value
Encode(lib, v, withDefault) ==
    CASE Native(v) -> Ok(v)
      [] v.t = "dict_circular" ->
            IF lib = "json"
            THEN Raise(Exc("ValueError", <<PLAIN>>))
            ELSE Raise(Exc("OverflowError", <<PLAIN>>))
      [] OTHER ->
            IF withDefault THEN JsonSerializable(v)
            ELSE Raise(Exc("TypeError", <<PLAIN>>))

\* json_lib.dumps(record [, default=_json_serializable]); a backend without a
\* `default` argument rejects the call with TypeError
Dumps(lib, m, withDefault) ==
    IF withDefault /\ lib = "ujson" THEN Raise(Exc("TypeError", <<PLAIN>>))
    ELSE
    LET outs == [k \in DOMAIN m |-> Encode(lib, m[k], withDefault)]
        bad == {k \in DOMAIN m : ~outs[k].ok}
    IN  IF bad = {} THEN Ok([k \in DOMAIN m |-> outs[k].val])
        ELSE Raise(outs[CHOOSE k \in bad : TRUE].exc)

SerializationErrors == {"TypeError", "ValueError", "OverflowError"}

FirstExceptTypeErrorOnly(e) == e.type = "TypeError"

\* line 72: except (TypeError, ValueError, OverflowError)
FirstExcept(e) == e.type \in SerializationErrors

\* line 75: except (TypeError, ValueError, OverflowError)
SecondExcept(e) == e.type \in SerializationErrors

Attempt(withDefault, r) ==
    [with_default |-> withDefault,
     outcome |-> IF r.ok THEN "ok" ELSE r.exc.type,
     val |-> IF r.ok THEN r.val ELSE EmptyMap]

\* to_json(record): [ok, out, exc, attempts]
ToJson(lib, m) ==
    LET a1 == Dumps(lib, m, TRUE)
        a2 == Dumps(lib, m, FALSE)
    IN  IF a1.ok
        THEN [ok |-> TRUE, out |-> OutDumps(a1.val), exc |-> NoExc,
              attempts |-> <<Attempt(TRUE, a1)>>]
        ELSE IF ~FirstExcept(a1.exc)
        THEN [ok |-> FALSE, out |-> NoResult, exc |-> a1.exc,
              attempts |-> <<Attempt(TRUE, a1)>>]
        ELSE IF a2.ok
        THEN [ok |-> TRUE, out |-> OutDumps(a2.val), exc |-> NoExc,
              attempts |-> <<Attempt(TRUE, a1), Attempt(FALSE, a2)>>]
        ELSE IF ~SecondExcept(a2.exc)
        THEN [ok |-> FALSE, out |-> NoResult, exc |-> a2.exc,
              attempts |-> <<Attempt(TRUE, a1), Attempt(FALSE, a2)>>]
        ELSE [ok |-> TRUE, out |-> OutLiteralEmpty, exc |-> NoExc,
              attempts |-> <<Attempt(TRUE, a1), Attempt(FALSE, a2)>>]

-----------------------------------------------------------------------------
(* Step F: the boundary of format *)

ExceptionTypes ==
    {"AttributeError", "KeyError", "RuntimeError", "TypeError", "ValueError",
     "OverflowError"}

CatchesSerializationErrorsOnly(e) == e.type \in SerializationErrors

\* line 52: except Exception
Catches(e) == e.type \in ExceptionTypes

QualName == "didit_aml.log.LokiFormatter"

\* line 53: the f-string, str(e) put between the quotes as it is
Fallback(e) == OutFallback(e.text)

\* What a JSON parser makes of the characters between
\* `"message": "` and the closing `"}` of the f-string.  An unescaped quote ends
\* the string early and what follows it (a character of the alphabet, or the
\* f-string's own quote) is neither `,` nor `}`; a raw control character is
\* not allowed inside a string; a backslash must start an escape, and `\x`
\* and backslash-newline are none; a backslash at the end escapes the
\* f-string's closing quote and the string never ends.
RECURSIVE DecodeBody(_)
DecodeBody(b) ==
    IF b = <<>> THEN [valid |-> TRUE, text |-> <<>>]
    ELSE IF Head(b) = PLAIN
    THEN LET r == DecodeBody(Tail(b))
         IN  [valid |-> r.valid, text |-> IF r.valid THEN <<PLAIN>> \o r.text ELSE <<>>]
    ELSE IF Head(b) = BACKSLASH /\ Len(b) >= 2 /\ b[2] \in {QUOTE, BACKSLASH}
    THEN LET r == DecodeBody(Tail(Tail(b)))
         IN  [valid |-> r.valid, text |-> IF r.valid THEN <<b[2]>> \o r.text ELSE <<>>]
    ELSE [valid |-> FALSE, text |-> <<>>]

\* json.loads(output): [valid, obj]
Parse(out) ==
    CASE out.kind = "dumps" -> [valid |-> TRUE, obj |-> out.obj]
      [] out.kind = "literal" -> [valid |-> TRUE, obj |-> EmptyMap]
      [] out.kind = "fstring" ->
            LET d == DecodeBody(out.body)
            IN  IF d.valid
                THEN [valid |-> TRUE,
                      obj |-> [k \in {"level", "name", "message"} |->
                                 CASE k = "level" -> StrV("ERROR")
                                   [] k = "name" -> StrV(QualName)
                                   [] OTHER -> TextV(d.text)]]
                ELSE [valid |-> FALSE, obj |-> EmptyMap]
      [] OTHER -> [valid |-> FALSE, obj |-> EmptyMap]

-----------------------------------------------------------------------------
(* format(record), one step of its try block per action *)

Deref(ref) ==
    CASE ref = "event" -> record
      [] ref = "fresh" -> fresh
      [] ref = "new" -> newmap
      [] OTHER -> EmptyMap

Init ==
    \E txt \in ErrTexts, v \in PyVersions, lib \in JsonLibs, hook \in HookKinds,
       ei \in {NoneV, ExcInfo} :
    \E m \in Messages(txt), ex \in ExtraDicts(txt) :
        /\ py = v
        /\ self = [json_lib |-> lib, hook |-> hook,
                   hook_err |-> IF hook = "raises" THEN txt ELSE <<>>]
        /\ record = WithExtra(LogRecord(v, m[1], m[2], ei), ex)
        /\ supplied = record
        /\ pc = "getMessage"
        /\ message = NoneV
        /\ extra = "unset"
        /\ json_record = "unset"
        /\ fresh = EmptyMap
        /\ newmap = EmptyMap
        /\ hook_ret = "unset"
        /\ mutated_record = "unset"
        /\ to_json_arg = EmptyMap
        /\ attempts = <<>>
        /\ caught = NoExc
        /\ result = NoResult
        /\ prev = NoResult
        /\ calls = 1

\* lines 52-53: the except clause of format ends the call
Except(e) ==
    /\ caught' = e
    /\ result' = IF Catches(e) THEN Fallback(e) ELSE OutRaised
    /\ pc' = "done"

\* line 42
StepGetMessage ==
    /\ pc = "getMessage"
    /\ LET r == GetMessage(record)
       IN  IF r.ok
           THEN /\ message' = r.val
                /\ pc' = "extra_from_record"
                /\ UNCHANGED <<caught, result>>
           ELSE /\ Except(r.exc)
                /\ UNCHANGED message
    /\ UNCHANGED <<py, self, record, supplied, extra, json_record, fresh, newmap,
                   hook_ret, mutated_record, to_json_arg, attempts, prev, calls>>

\* line 43
StepExtraFromRecord ==
    /\ pc = "extra_from_record"
    /\ LET r == ExtraFromRecord(record)
       IN  /\ extra' = r.ref
           /\ fresh' = IF r.ref = "fresh" THEN r.map ELSE fresh
    /\ pc' = "json_record"
    /\ UNCHANGED <<py, self, record, supplied, message, json_record, newmap,
                   hook_ret, mutated_record, to_json_arg, attempts, caught,
                   result, prev, calls>>

\* line 44
StepJsonRecord ==
    /\ pc = "json_record"
    /\ LET r == JsonRecord(message, Deref(extra), record)
       IN  /\ fresh' = IF extra = "fresh" THEN r.map ELSE fresh
           /\ record' = IF extra = "event" THEN r.map ELSE record
           /\ IF r.ok
              THEN /\ json_record' = extra
                   /\ pc' = "mutate_json_record"
                   /\ UNCHANGED <<caught, result>>
              ELSE /\ Except(r.exc)
                   /\ UNCHANGED json_record
    /\ UNCHANGED <<py, self, supplied, message, extra, newmap, hook_ret,
                   mutated_record, to_json_arg, attempts, prev, calls>>

\* lines 45-50
StepMutateJsonRecord ==
    /\ pc = "mutate_json_record"
    /\ LET r == MutateJsonRecord(self.hook, json_record, Deref(json_record),
                                 self.hook_err)
       IN  /\ fresh' = IF json_record = "fresh" THEN r.inplace ELSE fresh
           /\ record' = IF json_record = "event" THEN r.inplace ELSE record
           /\ newmap' = r.new
           /\ IF r.ok
              THEN /\ hook_ret' = r.ret
                   /\ mutated_record' = ResolveHookReturn(r.ret, json_record)
                   /\ pc' = "to_json"
                   /\ UNCHANGED <<caught, result>>
              ELSE /\ Except(r.exc)
                   /\ UNCHANGED <<hook_ret, mutated_record>>
    /\ UNCHANGED <<py, self, supplied, message, extra, json_record, to_json_arg,
                   attempts, prev, calls>>

\* line 51
StepToJson ==
    /\ pc = "to_json"
    /\ LET r == ToJson(self.json_lib, Deref(mutated_record))
       IN  /\ to_json_arg' = Deref(mutated_record)
           /\ attempts' = r.attempts
           /\ IF r.ok
              THEN /\ result' = r.out
                   /\ pc' = "done"
                   /\ UNCHANGED caught
              ELSE Except(r.exc)
    /\ UNCHANGED <<py, self, record, supplied, message, extra, json_record,
                   fresh, newmap, hook_ret, mutated_record, prev, calls>>

\* the handler formats the same record once more: a new call, new locals
FormatAgain ==
    /\ pc = "done"
    /\ calls < MaxCalls
    /\ calls' = calls + 1
    /\ prev' = result
    /\ pc' = "getMessage"
    /\ message' = NoneV
    /\ extra' = "unset"
    /\ json_record' = "unset"
    /\ fresh' = EmptyMap
    /\ newmap' = EmptyMap
    /\ hook_ret' = "unset"
    /\ mutated_record' = "unset"
    /\ to_json_arg' = EmptyMap
    /\ attempts' = <<>>
    /\ caught' = NoExc
    /\ result' = NoResult
    /\ UNCHANGED <<py, self, record, supplied>>

Next ==
    \/ StepGetMessage
    \/ StepExtraFromRecord
    \/ StepJsonRecord
    \/ StepMutateJsonRecord
    \/ StepToJson
    \/ FormatAgain

Spec == Init /\ [][Next]_vars

-----------------------------------------------------------------------------
(* Properties *)

Done == pc = "done"
CallerExtras == DOMAIN supplied \ BUILTIN_ATTRS
Assembled == Deref(json_record)
Output == Parse(result)
NonEmptyString(v) == v.t = "str" /\ (v.s # "" \/ v.c # <<>>)
\* the event's template renders and the formatter is LokiFormatter itself
Renders == supplied["msg"].t = "str"
DefaultHook == self.hook = "default"
IsEmptyObjectText(out) ==
    out.kind = "literal" \/ (out.kind = "dumps" /\ out.obj = EmptyMap)

C2_OutputParsesAsObject ==
    Done =>
        /\ Output.valid
        /\ (/\ Renders
            /\ DefaultHook
            /\ \E k \in CallerExtras : supplied[k].t = "dict_circular")
              => IsEmptyObjectText(result)

\* C3 (as claimed): an event of the built-in schema whose template renders
\* and whose extras are serializable yields the success record with message,
\* level, name, filename, func_name, lineno, module and pathname of the event.
C3_SuccessRecord ==
    (/\ Done
     /\ DefaultHook
     /\ Renders
     /\ \A k \in CallerExtras : Native(supplied[k]))
    =>
        /\ result.kind = "dumps"
        /\ {"message", "level", "name", "filename", "func_name", "lineno",
            "module", "pathname"} \subseteq DOMAIN result.obj
        /\ result.obj["message"] = StrV("user alice logged in")
        /\ result.obj["level"] = supplied["levelname"]
        /\ result.obj["name"] = supplied["name"]
        /\ result.obj["filename"] = supplied["filename"]
        /\ result.obj["func_name"] = supplied["funcName"]
        /\ result.obj["lineno"] = supplied["lineno"]
        /\ result.obj["module"] = supplied["module"]
        /\ result.obj["pathname"] = supplied["pathname"]

\* the Step D coercion of one value
Coerced(v) == IF v.t = "datetime" THEN isoformat(v) ELSE v

\* C4 (as claimed): every attribute X outside BUILTIN_ATTRS is a top-level key
\* of the assembled record and of the output, with the caller's value up to
\* the datetime coercion, also when X is a name json_record writes.  Stated
\* for the events whose template renders.
C4_ExtrasAppearInOutput ==
    (Done /\ DefaultHook /\ Renders) =>
        \A X \in CallerExtras :
            /\ X \in DOMAIN Assembled
            /\ Assembled[X] = Coerced(supplied[X])
            /\ Output.valid
            /\ X \in DOMAIN Output.obj
            /\ Native(Coerced(supplied[X])) => Output.obj[X] = Coerced(supplied[X])

\* C5 (as claimed): on any failure reaching the boundary the output is the
\* three-key record level = ERROR, name = the formatter's qualified name,
\* message = the non-empty text of the caught error.  Stated for the errors
\* whose text is not empty.
C5_FallbackRecord ==
    (Done /\ caught # NoExc /\ caught.text # <<>>) =>
        /\ Output.valid
        /\ DOMAIN Output.obj = {"level", "name", "message"}
        /\ Output.obj["level"] = StrV("ERROR")
        /\ Output.obj["name"] = StrV(QualName)
        /\ Output.obj["message"] = TextV(caught.text)
        /\ caught.text # <<>>

\* C6: to_json tries dumps with the default coercion first; only after a
\* TypeError, ValueError or OverflowError it tries without; only after a
\* second such error it returns '{}'.  A successful attempt is the last one
\* and its text is the result; none of the three errors leaves to_json; the
\* coercion exposes an object's field mapping, else its string form.
C6_ToJsonAttemptOrder ==
    (Done /\ attempts # <<>>) =>
        LET n == Len(attempts)
        IN  /\ n <= 2
            /\ attempts[1].with_default
            /\ n = 2 => /\ attempts[1].outcome \in SerializationErrors
                        /\ ~attempts[2].with_default
            /\ attempts[1].outcome \in SerializationErrors => n = 2
            /\ \A i \in 1..n : attempts[i].outcome = "ok" =>
                    /\ i = n
                    /\ result = OutDumps(attempts[i].val)
            /\ result = OutLiteralEmpty <=>
                    (n = 2 /\ attempts[2].outcome \in SerializationErrors)
            /\ caught.type \notin SerializationErrors
            /\ \A k \in DOMAIN to_json_arg :
                    (attempts[1].outcome = "ok" /\ ~Native(to_json_arg[k])) =>
                        result.obj[k] =
                            IF to_json_arg[k].t = "object"
                            THEN V("jobject", "{\"x\": 1, \"y\": 2}", <<>>)
                            ELSE StrV(to_json_arg[k].s)

\* C6 witness: both attempts failed with a serialization error and to_json
\* returned '{}'.
C6_Witness ==
    /\ Done
    /\ Len(attempts) = 2
    /\ attempts[1].outcome = "ValueError"
    /\ attempts[2].outcome = "ValueError"
    /\ result = OutLiteralEmpty

\* C7 (as claimed): without exception info neither the assembled record nor
\* the output has an exc_info key; with it both have exc_info, a non-empty
\* string.  Stated for the events whose template renders and whose extras
\* are serializable.
C7_ExcInfoKey ==
    (Done /\ DefaultHook /\ Renders /\ \A k \in CallerExtras : Native(supplied[k])) =>
        IF Truthy(supplied["exc_info"])
        THEN /\ "exc_info" \in DOMAIN Assembled
             /\ NonEmptyString(Assembled["exc_info"])
             /\ Output.valid
             /\ "exc_info" \in DOMAIN Output.obj
             /\ NonEmptyString(Output.obj["exc_info"])
        ELSE /\ "exc_info" \notin DOMAIN Assembled
             /\ Output.valid => "exc_info" \notin DOMAIN Output.obj

\* C8 (as claimed): for an event carrying only the attributes the host
\* framework sets, extra_from_record returns an empty mapping.
C8_NoExtrasForBuiltinEvent ==
    (pc = "json_record" /\ DOMAIN supplied = HostAttrs(py)) =>
        Deref(extra) = EmptyMap

\* C9: a hook that returns None had its argument serialized as the hook left
\* it, so its in-place change is in the output; a hook that returns a mapping
\* has exactly that mapping serialized.
C9_HookResultSerialized ==
    (Done /\ attempts # <<>>) =>
        /\ hook_ret = "None" =>
              /\ to_json_arg = Deref(json_record)
              /\ self.hook = "inplace_returns_none" =>
                    /\ "host" \in DOMAIN to_json_arg
                    /\ result.kind = "dumps" => "host" \in DOMAIN result.obj
        /\ hook_ret # "None" =>
              /\ to_json_arg = Deref(hook_ret)
              /\ result.kind = "dumps" => DOMAIN result.obj = DOMAIN Deref(hook_ret)
        /\ self.hook = "returns_new_mapping" => to_json_arg = newmap

\* C9 witness: an override mutated in place, returned None, and its new key
\* is in the output.
C9_Witness ==
    /\ Done
    /\ self.hook = "inplace_returns_none"
    /\ hook_ret = "None"
    /\ result.kind = "dumps"
    /\ "host" \in DOMAIN result.obj
    /\ result.obj["host"] = StrV("web-1")

\* C10: extra_from_record builds a new mapping, so no call of format changes
\* the event's attributes (no key added, removed or overwritten, no datetime
\* replaced by its ISO string), and formatting the event again gives the
\* same output.
C10_EventUnchanged ==
    /\ record = supplied
    /\ extra \in {"unset", "fresh"}
    /\ (Done /\ calls >= 2) => result = prev

\* C10 witness: a second successful call on an event with a datetime extra:
\* the output holds the ISO string, the event still the datetime.
C10_Witness ==
    /\ Done
    /\ calls = 2
    /\ result.kind = "dumps"
    /\ "request_id" \in DOMAIN record
    /\ record["request_id"] = Datetime
    /\ result.obj["request_id"] = isoformat(Datetime)

====
